---- MODULE Spec2Model ----
(***************************************************************************)
(* GruenbeckCloudCoordinator (custom_components/gruenbeck_cloud/           *)
(* coordinator.py): the poll callback, the push set-up with its background *)
(* listen task and shutdown listener, the push callback and the service    *)
(* handlers.  The vendor client (self.api) and the host are the            *)
(* environment: every awaited client call is a suspension point whose      *)
(* result is chosen nondeterministically when the task resumes.            *)
(***************************************************************************)
EXTENDS Integers, Sequences, FiniteSets, TLC

\* ---- bounds of the model ------------------------------------------------
MaxPolls == 2      \* poll cycles started
MaxReg == 2        \* push set-ups (_listen_websocket calls)
MaxPush == 2       \* updates delivered by api.listen to the callback
MaxSvc == 2        \* service calls
MaxSeries == 2     \* length of a measurement series

Handles == 1..MaxReg          \* the n-th push set-up owns handle n
None == 0                     \* self.unsub is None
Msgs == {"m1", "m2"}          \* str(err) of an error raised by the client

\* Exception classes the code distinguishes (coordinator.py:10-15, 29-31).
\* "ConnectionClosed" and "ResponseStatus" are caught before the generic
\* vendor class; "Vendor" is a PyGruenbeckCloudError that is neither;
\* "Other" is any exception outside the vendor hierarchy (KeyError,
\* RuntimeError, ...); "Cancelled" is the task's cancellation.
ConnectErrors == {"Vendor", "ResponseStatus"}
ListenErrors == {"ConnectionClosed", "ResponseStatus", "Vendor"}
Uncaught == {"Other", "Cancelled"}

PollOps == {"set_device_from_id", "get_device_infos",
            "get_device_infos_parameters", "enter_sd",
            "_get_web_access_token", "_http_request"}

VARIABLES
    unsub,          \* self.unsub: the handle of the shutdown listener, or None
    busListeners,   \* handles registered on the bus for EVENT_HOMEASSISTANT_STOP
    unsubCalls,     \* per handle: how often the unsubscribe callable was invoked
    connected,      \* self.api.connected
    apiDevice,      \* self.api.device is bound
    data,           \* self.data: the stored Device snapshot
    success,        \* self.last_update_success
    notifyCount,    \* calls of self.async_update_listeners
    seenData,       \* self.data as the listeners read it at the last notification
    tasks,          \* per push set-up: the background listen() task
    regCount,       \* calls of _listen_websocket so far
    stopFired,      \* EVENT_HOMEASSISTANT_STOP was fired
    closePc,        \* per handle: close_websocket "none" | "pending" | "done"
    disconnects,    \* calls of self.api.disconnect
    pollPc,         \* position of _async_update_data
    pollDev,        \* the poll's local `device`
    pollCalls,      \* per client operation: calls made by the current poll
    pollResult,     \* outcome of the last finished poll
    pollCount,      \* polls started
    sdReply,        \* what the refresh_sd request of this poll would be answered
    seq,            \* snapshots produced by the vendor client so far
    pushCount,      \* pushes delivered
    lastPush,       \* the snapshot of the last push
    svc,            \* the service call in flight, or the last one's outcome
    svcPrev         \* the last finished direct update_device_infos_parameters

vars == <<unsub, busListeners, unsubCalls, connected, apiDevice, data, success,
          notifyCount, seenData, tasks, regCount, stopFired, closePc,
          disconnects, pollPc, pollDev, pollCalls, pollResult, pollCount,
          sdReply, seq, pushCount, lastPush, svc, svcPrev>>

pushVars == <<unsub, busListeners, unsubCalls, connected, tasks, regCount,
              stopFired, closePc, disconnects, pushCount, lastPush>>
pollVars == <<apiDevice, pollPc, pollDev, pollCalls, pollResult, pollCount,
              sdReply>>
storeVars == <<data, success, notifyCount, seenData>>

\* A Device snapshot: `ver` says which of the client's snapshots it is (a later
\* one has a larger number), `realtime` what its realtime field holds.
NoDevice == [ver |-> 0, realtime |-> "client"]
Device(n) == [ver |-> n, realtime |-> "client"]

NoTask == [pc |-> "none", exit |-> "none", disc |-> FALSE]
NoCalls == [op \in PollOps |-> 0]
NoResult == [kind |-> "none"]
NoSvc == [pc |-> "idle", n |-> 0]

Init ==
    /\ unsub = None
    /\ busListeners = {}
    /\ unsubCalls = [h \in Handles |-> 0]
    /\ connected = FALSE
    /\ apiDevice = FALSE
    /\ data = NoDevice
    /\ success = TRUE
    /\ notifyCount = 0
    /\ seenData = NoDevice
    /\ tasks = [h \in Handles |-> NoTask]
    /\ regCount = 0
    /\ stopFired = FALSE
    /\ closePc = [h \in Handles |-> "none"]
    /\ disconnects = 0
    /\ pollPc = "idle"
    /\ pollDev = NoDevice
    /\ pollCalls = NoCalls
    /\ pollResult = NoResult
    /\ pollCount = 0
    /\ sdReply = "payload"
    /\ seq = 0
    /\ pushCount = 0
    /\ lastPush = NoDevice
    /\ svc = NoSvc
    /\ svcPrev = NoSvc

\* ---- the coordinator's store -------------------------------------------
\* self.data / self.last_update_success are written and, with n = 1,
\* self.async_update_listeners() is called: the listeners read self.data.
Store(d, ok, n) ==
    /\ data' = d
    /\ success' = ok
    /\ notifyCount' = notifyCount + n
    /\ seenData' = IF n > 0 THEN d ELSE seenData

\* ---- push set-up: _listen_websocket and its two closures -----------------
\* `if self.unsub: self.unsub(); self.unsub = None` (lines 80-82, 100-102).
\* Invoking the handle removes its listener from the bus.
ClearUnsub ==
    /\ busListeners' = busListeners \ {unsub}
    /\ unsubCalls' = IF unsub # None
                     THEN [unsubCalls EXCEPT ![unsub] = @ + 1]
                     ELSE unsubCalls
    /\ unsub' = None

\* _listen_websocket(): register close_websocket once on the stop event, keep
\* the handle in self.unsub, start listen() as a background task.  The task
\* runs to its first suspension, `await self.api.connect()`.
_listen_websocket ==
    /\ regCount < MaxReg
    /\ regCount' = regCount + 1
    /\ unsub' = regCount + 1
    /\ busListeners' = busListeners \cup {regCount + 1}
    /\ tasks' = [tasks EXCEPT ![regCount + 1] =
                    [pc |-> "connect", exit |-> "none", disc |-> FALSE]]

\* listen(), lines 76-83: api.connect() returns or raises.
ListenConnect(h, r) ==
    /\ tasks[h].pc = "connect"
    /\ IF r = "ok"
       THEN /\ connected' = TRUE
            /\ tasks' = [tasks EXCEPT ![h].pc = "listen"]
            /\ UNCHANGED <<unsub, busListeners, unsubCalls>>
       ELSE IF r \in ConnectErrors
       THEN /\ ClearUnsub
            /\ tasks' = [tasks EXCEPT ![h].pc = "done",
                                      ![h].exit = "ConnectFailed"]
            /\ UNCHANGED connected
       ELSE /\ tasks' = [tasks EXCEPT ![h].pc = "done",
                                      ![h].exit = "ConnectRaised"]
            /\ UNCHANGED <<unsub, busListeners, unsubCalls, connected>>
    /\ UNCHANGED <<regCount, stopFired, closePc, disconnects, pushCount,
                   lastPush, pollVars, storeVars, seq, svc, svcPrev>>

\* async_set_updated_data(data), lines 174-184: no await in it.
async_set_updated_data_silent(d) == Store(d, TRUE, 0)

async_set_updated_data(d) == Store(d, TRUE, 1)

\* api.listen delivers one update to callback=self.async_set_updated_data.
ListenPush(h) ==
    /\ tasks[h].pc = "listen"
    /\ connected
    /\ pushCount < MaxPush
    /\ pushCount' = pushCount + 1
    /\ seq' = seq + 1
    /\ lastPush' = Device(seq + 1)
    /\ async_set_updated_data(Device(seq + 1))
    /\ UNCHANGED <<unsub, busListeners, unsubCalls, connected, tasks, regCount,
                   stopFired, closePc, disconnects, pollVars, svc, svcPrev>>

\* The except clauses around `await self.api.listen(...)`, lines 85-96: what
\* the handler of outcome r does.  "Returned" is listen returning normally.
ListenExcept_quiet(r) ==
    IF r \in ListenErrors
    THEN [caught |-> TRUE, failed |-> TRUE, notify |-> 0]
    ELSE [caught |-> r = "Returned", failed |-> FALSE, notify |-> 0]

ListenExcept_loud(r) ==
    IF r \in ListenErrors
    THEN [caught |-> TRUE, failed |-> TRUE, notify |-> 1]
    ELSE [caught |-> r = "Returned", failed |-> FALSE, notify |-> 0]

ListenExcept(r) ==
    IF r \in {"ConnectionClosed", "ResponseStatus"}
    THEN [caught |-> TRUE, failed |-> TRUE, notify |-> 0]
    ELSE IF r = "Vendor"
    THEN [caught |-> TRUE, failed |-> TRUE, notify |-> 1]
    ELSE [caught |-> r = "Returned", failed |-> FALSE, notify |-> 0]

\* listen(), lines 85-99: api.listen ends with outcome r; a caught outcome
\* runs on to `await self.api.disconnect()`, an uncaught one leaves listen().
ListenEnd(h, r) ==
    /\ tasks[h].pc = "listen"
    /\ IF ListenExcept(r).caught
       THEN /\ Store(data, success /\ ~ListenExcept(r).failed,
                     ListenExcept(r).notify)
            /\ connected' = FALSE
            /\ disconnects' = disconnects + 1
            /\ tasks' = [tasks EXCEPT ![h] =
                            [pc |-> "disconnect", exit |-> r, disc |-> TRUE]]
       ELSE /\ tasks' = [tasks EXCEPT ![h].pc = "done", ![h].exit = r]
            /\ UNCHANGED <<storeVars, connected, disconnects>>
    /\ UNCHANGED <<unsub, busListeners, unsubCalls, regCount, stopFired,
                   closePc, pushCount, lastPush, pollVars, seq, svc, svcPrev>>

\* listen(), lines 100-102: api.disconnect() has returned.
ListenExit(h) ==
    /\ tasks[h].pc = "disconnect"
    /\ ClearUnsub
    /\ tasks' = [tasks EXCEPT ![h].pc = "done"]
    /\ UNCHANGED <<connected, regCount, stopFired, closePc, disconnects,
                   pushCount, lastPush, pollVars, storeVars, seq, svc, svcPrev>>

\* EVENT_HOMEASSISTANT_STOP is fired: every one-shot listener on the bus is
\* removed and its job, close_websocket, is scheduled.
FireStop ==
    /\ ~stopFired
    /\ stopFired' = TRUE
    /\ closePc' = [h \in Handles |->
                      IF h \in busListeners THEN "pending" ELSE closePc[h]]
    /\ busListeners' = {}
    /\ UNCHANGED <<unsub, unsubCalls, connected, tasks, regCount, disconnects,
                   pushCount, lastPush, pollVars, storeVars, seq, svc, svcPrev>>

\* close_websocket(event), lines 104-107.
close_websocket_keep(h) ==
    /\ closePc[h] = "pending"
    /\ closePc' = [closePc EXCEPT ![h] = "done"]
    /\ connected' = FALSE
    /\ disconnects' = disconnects + 1
    /\ UNCHANGED <<unsub, busListeners, unsubCalls, tasks, regCount, stopFired,
                   pushCount, lastPush, pollVars, storeVars, seq, svc, svcPrev>>

close_websocket(h) ==
    /\ closePc[h] = "pending"
    /\ closePc' = [closePc EXCEPT ![h] = "done"]
    /\ unsub' = None
    /\ connected' = FALSE
    /\ disconnects' = disconnects + 1
    /\ UNCHANGED <<busListeners, unsubCalls, tasks, regCount, stopFired,
                   pushCount, lastPush, pollVars, storeVars, seq, svc, svcPrev>>

\* ---- the poll: _async_update_data ----------------------------------------
NoErr == [cls |-> "none", msg |-> ""]
Err(c, m) == [cls |-> c, msg |-> m]
\* The exceptions drawn for a poll's client call: each class the except clause
\* names, with one of the messages.
PollErrs == {Err("Vendor", "m1"), Err("ResponseStatus", "m2"), Err("Other", "m1")}

\* The try/except of lines 193-216: `return device`, or every exception the
\* body raised becomes UpdateFailed(f"Unable to get data from API: {err}").
PollOutcome_swallow(e, d) == [kind |-> "ok", device |-> d]

PollOutcome(e, d) ==
    IF e = NoErr
    THEN [kind |-> "ok", device |-> d]
    ELSE [kind |-> "UpdateFailed",
          msg |-> <<"Unable to get data from API: ", e.msg>>,
          cause |-> e.cls]

\* DataUpdateCoordinator's refresh, the caller of _async_update_data: it stores
\* the returned Device, or marks the update failed, and notifies the listeners.
HostRefresh(out) ==
    IF out.kind = "ok" THEN Store(out.device, TRUE, 1)
                       ELSE Store(data, FALSE, 1)

\* The poll ends: raised e (NoErr: none) with local device d.
PollEnd(e, d) ==
    /\ pollResult' = [out |-> PollOutcome(e, d), raised |-> e]
    /\ HostRefresh(PollOutcome(e, d))
    /\ pollPc' = "idle"

Call(op) == pollCalls' = [pollCalls EXCEPT ![op] = @ + 1]

\* refresh_sd(), lines 218-252, would end in one of these ways if it ran: the
\* parsed DeviceRealtimeInfo, a status outside {200, 202}, a token or I/O error.
SdReplies == {"payload", "status", "io"}

\* Lines 193-196: the poll starts and suspends in its first client call.
PollStart ==
    /\ pollPc = "idle"
    /\ pollCount < MaxPolls
    /\ pollCount' = pollCount + 1
    /\ pollResult' = NoResult
    /\ pollDev' = NoDevice
    /\ sdReply' \in SdReplies
    /\ IF ~apiDevice
       THEN /\ pollPc' = "set_device_from_id"
            /\ pollCalls' = [NoCalls EXCEPT !["set_device_from_id"] = 1]
       ELSE /\ pollPc' = "get_device_infos"
            /\ pollCalls' = [NoCalls EXCEPT !["get_device_infos"] = 1]
    /\ UNCHANGED <<apiDevice, pushVars, storeVars, seq, svc, svcPrev>>

PollSetDevice_skip ==
    /\ pollPc = "set_device_from_id"
    /\ apiDevice' = TRUE
    /\ pollPc' = "get_device_infos_parameters"
    /\ Call("get_device_infos_parameters")
    /\ UNCHANGED <<sdReply, pollDev, pollResult, pollCount, pushVars, storeVars,
                   seq, svc, svcPrev>>

\* Line 195 returns (the client binds its device) and line 196 is called.
PollSetDevice ==
    /\ pollPc = "set_device_from_id"
    /\ apiDevice' = TRUE
    /\ pollPc' = "get_device_infos"
    /\ Call("get_device_infos")
    /\ UNCHANGED <<sdReply, pollDev, pollResult, pollCount, pushVars, storeVars, seq, svc, svcPrev>>

\* Line 196 returns and line 197 is called.
PollGetInfos ==
    /\ pollPc = "get_device_infos"
    /\ pollPc' = "get_device_infos_parameters"
    /\ Call("get_device_infos_parameters")
    /\ UNCHANGED <<sdReply, apiDevice, pollDev, pollResult, pollCount, pushVars,
                   storeVars, seq, svc, svcPrev>>

PollGetParams_guardFlipped ==
    /\ pollPc = "get_device_infos_parameters"
    /\ seq' = seq + 1
    /\ pollDev' = Device(seq + 1)
    /\ IF connected /\ unsub = None
       THEN /\ _listen_websocket
            /\ PollEnd(NoErr, Device(seq + 1))
            /\ UNCHANGED <<pollCalls, unsubCalls, connected, stopFired,
                           closePc, disconnects, pushCount, lastPush>>
       ELSE /\ pollPc' = "enter_sd"
            /\ Call("enter_sd")
            /\ UNCHANGED <<pollResult, pushVars, storeVars>>
    /\ UNCHANGED <<sdReply, apiDevice, pollCount, svc, svcPrev>>

\* Lines 197-209: get_device_infos_parameters returns the snapshot; then
\* either the push set-up and `return device`, or the call of enter_sd.
PollGetParams ==
    /\ pollPc = "get_device_infos_parameters"
    /\ seq' = seq + 1
    /\ pollDev' = Device(seq + 1)
    /\ IF ~connected /\ unsub = None
       THEN /\ _listen_websocket
            /\ PollEnd(NoErr, Device(seq + 1))
            /\ UNCHANGED <<pollCalls, unsubCalls, connected, stopFired,
                           closePc, disconnects, pushCount, lastPush>>
       ELSE /\ pollPc' = "enter_sd"
            /\ Call("enter_sd")
            /\ UNCHANGED <<pollResult, pushVars, storeVars>>
    /\ UNCHANGED <<sdReply, apiDevice, pollCount, svc, svcPrev>>

\* Lines 203-209: enter_sd returns; self.refresh_sd() is called without await,
\* so device.realtime is the coroutine object and no request is made.
PollEnterSd ==
    /\ pollPc = "enter_sd"
    /\ PollEnd(NoErr, [pollDev EXCEPT !.realtime = "coroutine"])
    /\ UNCHANGED <<sdReply, apiDevice, pollDev, pollCalls, pollCount, pushVars, seq, svc, svcPrev>>

\* Lines 210-216: the client call the poll is suspended in raises e.
PollRaise(e) ==
    /\ pollPc \in {"set_device_from_id", "get_device_infos",
                   "get_device_infos_parameters", "enter_sd"}
    /\ PollEnd(e, pollDev)
    /\ UNCHANGED <<sdReply, apiDevice, pollDev, pollCalls, pollCount, pushVars, seq, svc, svcPrev>>

\* ---- the service handlers -------------------------------------------------
Params == {"p1", "p2"}
Values == {"5", "7"}
Mappings == UNION {[S -> Values] : S \in SUBSET Params}
SvcErrs == {Err(c, m) : c \in {"UpdateParameter", "Vendor", "Other"}, m \in Msgs}

\* A measurement series of the Device: None, or a list of DailyUsageEntry.
Items == {[cls |-> "DailyUsageEntry", date |-> "d1", value |-> "v1"],
          [cls |-> "DailyUsageEntry", date |-> "d2", value |-> "v2"]}
NoSeries == [isNone |-> TRUE, items |-> <<>>]
Series == {NoSeries} \cup
          {[isNone |-> FALSE, items |-> q] :
              q \in UNION {[1..k -> Items] : k \in 0..MaxSeries}}
Measured == [salt : Series, water : Series]

\* The handler suspends in client operation op, called with arg.
SvcCall(entry, input, op, arg) ==
    /\ svc.pc \in {"idle", "done"}
    /\ svc.n < MaxSvc
    /\ svc' = [pc |-> "wait", n |-> svc.n + 1, entry |-> entry,
               input |-> input, op |-> op, arg |-> arg]
    /\ svcPrev' = IF svc.pc = "done"
                     /\ svc.entry = "update_device_infos_parameters"
                  THEN svc ELSE svcPrev
    /\ UNCHANGED <<pushVars, pollVars, storeVars, seq>>

\* The handler ends with outcome out, the client having replied reply.
SvcDone(reply, out) ==
    svc' = [pc |-> "done", n |-> svc.n, entry |-> svc.entry,
            input |-> svc.input, op |-> svc.op, arg |-> svc.arg,
            reply |-> reply, out |-> out, before |-> data, after |-> data']

\* Lines 161-163: the dict built from call.data.
ChangeSettingsData_literal(call) == ("parameter" :> call.value)

ChangeSettingsData(call) == (call.parameter :> call.value)

\* update_device_infos_parameters(data) up to its await, line 170.
update_device_infos_parameters(entry, input, m) ==
    SvcCall(entry, input, "update_device_infos_parameters", m)

\* service_change_settings(call), lines 159-165.
service_change_settings(p, v) ==
    update_device_infos_parameters(
        "service_change_settings", [parameter |-> p, value |-> v],
        ChangeSettingsData([parameter |-> p, value |-> v]))

\* update_device_infos_parameters called by the host's entities.
UpdateParameters(m) ==
    update_device_infos_parameters("update_device_infos_parameters", m, m)

UpdateReturn_viaSetUpdatedData ==
    /\ svc.pc = "wait"
    /\ svc.op = "update_device_infos_parameters"
    /\ seq' = seq + 1
    /\ Store(Device(seq + 1), TRUE, 1)
    /\ SvcDone([kind |-> "device", ver |-> seq + 1], [kind |-> "ok"])
    /\ UNCHANGED <<pushVars, pollVars, svcPrev>>

\* Line 170: the client returns the updated Device, stored in self.data.
UpdateReturn ==
    /\ svc.pc = "wait"
    /\ svc.op = "update_device_infos_parameters"
    /\ seq' = seq + 1
    /\ data' = Device(seq + 1)
    /\ SvcDone([kind |-> "device", ver |-> seq + 1], [kind |-> "ok"])
    /\ UNCHANGED <<success, notifyCount, seenData, pushVars, pollVars, svcPrev>>

\* Lines 171-172: `except PyGruenbeckCloudUpdateParameterError as err:
\* raise HomeAssistantError(err) from err`; any other exception propagates.
UpdateError_bare(e) ==
    IF e.cls = "UpdateParameter"
    THEN [kind |-> "HomeAssistantError", msg |-> "", cause |-> e.cls]
    ELSE [kind |-> e.cls, msg |-> e.msg, cause |-> "none"]

UpdateError(e) ==
    IF e.cls = "UpdateParameter"
    THEN [kind |-> "HomeAssistantError", msg |-> e.msg, cause |-> e.cls]
    ELSE [kind |-> e.cls, msg |-> e.msg, cause |-> "none"]

UpdateRaise(e) ==
    /\ svc.pc = "wait"
    /\ svc.op = "update_device_infos_parameters"
    /\ data' = data
    /\ SvcDone([kind |-> "error", cls |-> e.cls, msg |-> e.msg], UpdateError(e))
    /\ UNCHANGED <<success, notifyCount, seenData, seq, pushVars, pollVars,
                   svcPrev>>

\* Lines 124-135 and 142-153: the response built from the Device.
Entries_reversed(q) ==
    [i \in DOMAIN q |->
        [date |-> q[Len(q) + 1 - i].date, value |-> q[Len(q) + 1 - i].value]]

Entries(q) == [i \in DOMAIN q |-> [date |-> q[i].date, value |-> q[i].value]]

SaltResponse(device) ==
    IF device.salt.isNone THEN [entries |-> <<>>]
                          ELSE [entries |-> Entries(device.salt.items)]

WaterResponse(device) ==
    IF device.water.isNone THEN [entries |-> <<>>]
                           ELSE [entries |-> Entries(device.water.items)]

service_get_device_salt_measurements ==
    SvcCall("service_get_device_salt_measurements", <<>>,
            "get_device_salt_measurements", <<>>)

service_get_device_water_measurements ==
    SvcCall("service_get_device_water_measurements", <<>>,
            "get_device_water_measurements", <<>>)

\* Lines 123-135 / 141-153: the client returns the Device.
MeasurementsReturn(device) ==
    /\ svc.pc = "wait"
    /\ svc.op \in {"get_device_salt_measurements",
                   "get_device_water_measurements"}
    /\ data' = data
    /\ SvcDone([kind |-> "device", device |-> device],
               [kind |-> "ok",
                response |-> IF svc.op = "get_device_salt_measurements"
                             THEN SaltResponse(device)
                             ELSE WaterResponse(device)])
    /\ UNCHANGED <<success, notifyCount, seenData, seq, pushVars, pollVars,
                   svcPrev>>

\* service_regenerate(call), lines 155-157.
service_regenerate == SvcCall("service_regenerate", <<>>, "regenerate", <<>>)

RegenerateReturn ==
    /\ svc.pc = "wait"
    /\ svc.op = "regenerate"
    /\ data' = data
    /\ SvcDone([kind |-> "none"], [kind |-> "ok"])
    /\ UNCHANGED <<success, notifyCount, seenData, seq, pushVars, pollVars,
                   svcPrev>>

\* A handler without try/except: the client's exception propagates unchanged.
SvcRaise(e) ==
    /\ svc.pc = "wait"
    /\ svc.op # "update_device_infos_parameters"
    /\ data' = data
    /\ SvcDone([kind |-> "error", cls |-> e.cls, msg |-> e.msg],
               [kind |-> e.cls, msg |-> e.msg, cause |-> "none"])
    /\ UNCHANGED <<success, notifyCount, seenData, seq, pushVars, pollVars,
                   svcPrev>>

NextSvc ==
    \/ \E p \in Params, v \in Values : service_change_settings(p, v)
    \/ \E m \in Mappings : UpdateParameters(m)
    \/ UpdateReturn
    \/ \E e \in SvcErrs : UpdateRaise(e)
    \/ service_get_device_salt_measurements
    \/ service_get_device_water_measurements
    \/ \E device \in Measured : MeasurementsReturn(device)
    \/ service_regenerate
    \/ RegenerateReturn
    \/ \E e \in SvcErrs : SvcRaise(e)

SpecSvc == Init /\ [][NextSvc]_vars

\* ---- the coordinator with its push channel --------------------------------
Next ==
    \/ PollStart
    \/ PollSetDevice
    \/ PollGetInfos
    \/ PollGetParams
    \/ PollEnterSd
    \/ \E e \in PollErrs : PollRaise(e)
    \/ \E h \in Handles, r \in {"ok"} \cup ConnectErrors \cup Uncaught :
           ListenConnect(h, r)
    \/ \E h \in Handles : ListenPush(h)
    \/ \E h \in Handles, r \in {"Returned"} \cup ListenErrors \cup Uncaught :
           ListenEnd(h, r)
    \/ \E h \in Handles : ListenExit(h)
    \/ FireStop
    \/ \E h \in Handles : close_websocket(h)

Spec == Init /\ [][Next]_vars

\* ---- update-parameters against a coordinator in use ----------------------
\* The coordinator after its first poll (lines 194-201 registered the push
\* set-up) and the listen task's connect (line 77).
PushUp ==
    /\ unsub = 1
    /\ busListeners = {1}
    /\ unsubCalls = [h \in Handles |-> 0]
    /\ connected = TRUE
    /\ apiDevice = TRUE
    /\ data = Device(1)
    /\ success = TRUE
    /\ notifyCount = 1
    /\ seenData = Device(1)
    /\ tasks = [h \in Handles |->
                  IF h = 1 THEN [pc |-> "listen", exit |-> "none", disc |-> FALSE]
                  ELSE NoTask]
    /\ regCount = 1
    /\ stopFired = FALSE
    /\ closePc = [h \in Handles |-> "none"]
    /\ disconnects = 0
    /\ pollPc = "idle"
    /\ pollDev = Device(1)
    /\ pollCalls = [op \in PollOps |->
                      IF op \in {"set_device_from_id", "get_device_infos",
                                 "get_device_infos_parameters"}
                      THEN 1 ELSE 0]
    /\ pollResult = [out |-> PollOutcome(NoErr, Device(1)), raised |-> NoErr]
    /\ pollCount = 1
    /\ sdReply = "payload"
    /\ seq = 1
    /\ pushCount = 0
    /\ lastPush = NoDevice
    /\ svc = NoSvc
    /\ svcPrev = NoSvc

\* The same coordinator after a second poll whose get_device_infos raised
\* (lines 195, 210-216): the success flag is false, the snapshot is kept.
PushUpPollFailed ==
    /\ unsub = 1
    /\ busListeners = {1}
    /\ unsubCalls = [h \in Handles |-> 0]
    /\ connected = TRUE
    /\ apiDevice = TRUE
    /\ data = Device(1)
    /\ success = FALSE
    /\ notifyCount = 2
    /\ seenData = Device(1)
    /\ tasks = [h \in Handles |->
                  IF h = 1 THEN [pc |-> "listen", exit |-> "none", disc |-> FALSE]
                  ELSE NoTask]
    /\ regCount = 1
    /\ stopFired = FALSE
    /\ closePc = [h \in Handles |-> "none"]
    /\ disconnects = 0
    /\ pollPc = "idle"
    /\ pollDev = NoDevice
    /\ pollCalls = [op \in PollOps |-> IF op = "get_device_infos" THEN 1 ELSE 0]
    /\ pollResult = [out |-> PollOutcome(Err("Vendor", "m1"), NoDevice),
                     raised |-> Err("Vendor", "m1")]
    /\ pollCount = 2
    /\ sdReply = "payload"
    /\ seq = 1
    /\ pushCount = 0
    /\ lastPush = NoDevice
    /\ svc = NoSvc
    /\ svcPrev = NoSvc

InitUpd == Init \/ PushUp \/ PushUpPollFailed

NextUpd ==
    \/ \E p \in Params, v \in Values : service_change_settings(p, v)
    \/ \E m \in Mappings : UpdateParameters(m)
    \/ UpdateReturn
    \/ \E e \in SvcErrs : UpdateRaise(e)

SpecUpd == InitUpd /\ [][NextUpd]_vars

\* ---- properties -----------------------------------------------------------
LiveTasks == {h \in Handles : tasks[h].pc \in {"connect", "listen", "disconnect"}}
Entered(h) == tasks[h].exit \notin {"none", "ConnectFailed", "ConnectRaised"}

\* C1: in every reachable state at most one shutdown listener is registered
\* and at most one background listen task is live.
C1_AtMostOneRegistration ==
    /\ Cardinality(busListeners) <= 1
    /\ Cardinality(LiveTasks) <= 1

\* C2: a finished poll returned the Device that get_device_infos_parameters
\* gave it, or, whenever a client call raised, failed with UpdateFailed
\* carrying the error's message; no client operation is called twice in a poll.
C2_PollOutcome ==
    /\ \A op \in PollOps : pollCalls[op] <= 1
    /\ pollResult # NoResult =>
          IF pollResult.raised = NoErr
          THEN /\ pollResult.out.kind = "ok"
               /\ pollResult.out.device.ver = pollDev.ver
               /\ pollDev.ver > 0
          ELSE /\ pollResult.out.kind = "UpdateFailed"
               /\ pollResult.out.msg[Len(pollResult.out.msg)]
                      = pollResult.raised.msg

\* A poll failed in enter_sd, after its three fetches.
C2_Witness ==
    /\ pollResult # NoResult
    /\ pollResult.raised # NoErr
    /\ pollCalls["enter_sd"] = 1
    /\ pollCalls["get_device_infos_parameters"] = 1

\* C3: the step of close_websocket leaves the unsubscribe handle absent and
\* calls disconnect, and an absent handle becomes present only by a poll's
\* push set-up.
C3_ShutdownClearsHandle ==
    [][/\ (\E h \in Handles : closePc[h] = "pending" /\ closePc'[h] = "done")
            => unsub' = None /\ disconnects' = disconnects + 1
       /\ (unsub = None /\ unsub' # None)
            => /\ pollPc = "get_device_infos_parameters"
               /\ regCount' = regCount + 1
               /\ unsub' = regCount']_vars

\* The stop event was handled while the listen task of that set-up was
\* listening, and the handle is absent.
C3_Witness ==
    \E h \in Handles :
        /\ closePc[h] = "done"
        /\ tasks[h].pc = "listen"
        /\ unsub = None
        /\ disconnects > 0

\* C4: the step in which the listen loop ends with a generic vendor error
\* sets the success flag to false and notifies the listeners exactly once.
C4_GenericErrorNotifiesOnce ==
    [][\A h \in Handles :
          (tasks[h].pc = "listen" /\ tasks'[h].exit = "Vendor")
              => ~success' /\ notifyCount' = notifyCount + 1]_vars

\* A listen task ended with the generic vendor error after a push had set the
\* success flag.
C4_Witness ==
    \E h \in Handles :
        /\ tasks[h].exit = "Vendor"
        /\ pushCount > 0
        /\ ~success

\* C5: the step of the push callback stores the pushed snapshot, sets the
\* success flag and notifies the listeners exactly once, so the state any
\* other task sees next has the listeners notified of the stored snapshot.
C5_PushAtomic ==
    [][pushCount' = pushCount + 1
          => /\ data' = lastPush'
             /\ data'.ver = seq'
             /\ success'
             /\ notifyCount' = notifyCount + 1
             /\ seenData' = data']_vars

\* A push was applied while a poll was suspended in a client call.
C5_Witness ==
    /\ pushCount > 0
    /\ data = lastPush
    /\ seenData = data
    /\ pollPc = "get_device_infos_parameters"

UpdateDone ==
    svc.pc = "done" /\ svc.op = "update_device_infos_parameters"

\* C6: update-parameters that got the vendor's invalid-parameter error ends
\* with HomeAssistantError carrying the vendor's message, and nothing else.
C6_InvalidParameterWrapped ==
    (/\ UpdateDone
     /\ svc.reply.kind = "error"
     /\ svc.reply.cls = "UpdateParameter")
        => /\ svc.out.kind = "HomeAssistantError"
           /\ svc.out.msg = svc.reply.msg
           /\ svc.out.cause = "UpdateParameter"
           /\ svc.after = svc.before

\* update-parameters, called directly, got the invalid-parameter error.
C6_Witness ==
    /\ UpdateDone
    /\ svc.entry = "update_device_infos_parameters"
    /\ svc.reply.kind = "error"
    /\ svc.reply.cls = "UpdateParameter"
    /\ svc.reply.msg = "m2"

SameReply(a, b) == a.kind = b.kind /\ (a.kind = "error" => a = b)

\* C7: change-setting {parameter: p, value: v} makes the one client call
\* update_device_infos_parameters({p: v}) and ends as the direct
\* update-parameters({p: v}) that got the same reply ended: same outcome, and
\* the client's Device stored or the snapshot untouched alike.
C7_ChangeSettingIsUpdate ==
    (svc.pc = "done" /\ svc.entry = "service_change_settings")
        => /\ svc.op = "update_device_infos_parameters"
           /\ svc.arg = (svc.input.parameter :> svc.input.value)
           /\ (/\ svcPrev.pc = "done"
               /\ svcPrev.input = (svc.input.parameter :> svc.input.value)
               /\ SameReply(svcPrev.reply, svc.reply))
                 => /\ svc.op = svcPrev.op
                    /\ svc.arg = svcPrev.arg
                    /\ svc.out = svcPrev.out
                    /\ IF svc.reply.kind = "device"
                       THEN /\ svc.after = Device(svc.reply.ver)
                            /\ svcPrev.after = Device(svcPrev.reply.ver)
                       ELSE /\ svc.after = svc.before
                            /\ svcPrev.after = svcPrev.before

\* change-setting("p2", "5") ended after update-parameters({"p2": "5"}), both
\* with the client's Device.
C7_Witness ==
    /\ svc.pc = "done"
    /\ svc.entry = "service_change_settings"
    /\ svc.input = [parameter |-> "p2", value |-> "5"]
    /\ svcPrev.pc = "done"
    /\ svcPrev.input = ("p2" :> "5")
    /\ svc.reply.kind = "device"
    /\ svcPrev.reply.kind = "device"

MeasurementDone ==
    /\ svc.pc = "done"
    /\ svc.op \in {"get_device_salt_measurements",
                   "get_device_water_measurements"}
    /\ svc.reply.kind = "device"

AskedSeries ==
    IF svc.op = "get_device_salt_measurements"
    THEN svc.reply.device.salt ELSE svc.reply.device.water

\* C8: a measurement service whose client call returned a Device answers
\* {entries: []} when the series is None, and else one {date, value} entry per
\* element of the series, in the series' order.
C8_MeasurementEntries ==
    MeasurementDone =>
        /\ svc.out.kind = "ok"
        /\ DOMAIN svc.out.response = {"entries"}
        /\ IF AskedSeries.isNone
           THEN svc.out.response.entries = <<>>
           ELSE /\ Len(svc.out.response.entries) = Len(AskedSeries.items)
                /\ \A i \in 1..Len(AskedSeries.items) :
                      svc.out.response.entries[i] =
                          [date |-> AskedSeries.items[i].date,
                           value |-> AskedSeries.items[i].value]

\* get-salt-measurements got a Device whose salt series is None while its
\* water series has two elements.
C8_Witness ==
    /\ MeasurementDone
    /\ svc.op = "get_device_salt_measurements"
    /\ svc.reply.device.salt.isNone
    /\ Len(svc.reply.device.water.items) = MaxSeries
    /\ svc.out.response.entries = <<>>

\* C9: the step in which a listen task ends leaves the unsubscribe handle
\* absent and, when the listen loop had been entered, has called disconnect.
C9_ListenAlwaysCleansUp ==
    [][\A h \in Handles :
          (tasks[h].pc # "done" /\ tasks'[h].pc = "done")
              => /\ unsub' = None
                 /\ Entered(h)' => tasks'[h].disc]_vars

\* C10: a poll that completes its device fetches when every listen task
\* started so far has ended calls _listen_websocket.
C10_NextPollReconnects ==
    [][(/\ pollPc = "get_device_infos_parameters"
        /\ pollDev' # pollDev
        /\ regCount > 0
        /\ LiveTasks = {})
          => regCount' = regCount + 1]_vars

\* C11: the step in which api.connect fails with a vendor or status error ends
\* the listen task before api.listen is called, leaves the unsubscribe handle
\* absent and the task's shutdown listener off the bus, and changes neither
\* the stored snapshot nor the success flag nor notifies the listeners.
C11_ConnectFailureAbandons ==
    [][\A h \in Handles :
          (tasks[h].pc = "connect" /\ tasks'[h].exit = "ConnectFailed")
              => /\ tasks'[h].pc = "done"
                 /\ ~Entered(h)'
                 /\ unsub' = None
                 /\ h \notin busListeners'
                 /\ unsub # None => unsubCalls'[unsub] = unsubCalls[unsub] + 1
                 /\ data' = data
                 /\ success' = success
                 /\ notifyCount' = notifyCount]_vars

\* C12: the step in which the listen loop ends with a connection-closed or a
\* status error sets the success flag to false and does not notify the
\* listeners.
C12_ClosedOrStatusSilent ==
    [][\A h \in Handles :
          (/\ tasks[h].pc = "listen"
           /\ tasks'[h].exit \in {"ConnectionClosed", "ResponseStatus"})
              => /\ ~success'
                 /\ notifyCount' = notifyCount
                 /\ data' = data]_vars

\* A listen task ended with the connection-closed error after a push had set
\* the success flag.
C12_Witness ==
    \E h \in Handles :
        /\ tasks[h].exit = "ConnectionClosed"
        /\ pushCount > 0
        /\ ~success

\* A poll that took the else branch of line 202 and whose enter_sd returned.
PollWithPush ==
    /\ pollResult # NoResult
    /\ pollCalls["enter_sd"] = 1
    /\ pollResult.raised = NoErr

\* C13: a poll that ran with push mode set up called enter_sd, then made the
\* request of refresh_sd, and the realtime field of the snapshot it returned
\* holds the payload parsed from the response.
C13_RealtimeFetched ==
    (PollWithPush /\ sdReply = "payload")
        => /\ pollCalls["_get_web_access_token"] = 1
           /\ pollCalls["_http_request"] = 1
           /\ pollResult.out.kind = "ok"
           /\ pollResult.out.device.realtime = "payload"

\* C14: a poll whose refresh_sd request fails ends with UpdateFailed.
C14_FetchFailureFailsPoll ==
    (PollWithPush /\ sdReply # "payload")
        => pollResult.out.kind = "UpdateFailed"

\* The poll suspends in client operation op in this step.
Calls(op) == pollPc' = op /\ pollPc # op

\* C15: within a poll set_device_from_id is called first and only when no
\* device is bound, then get_device_infos, then get_device_infos_parameters,
\* and only after it the push decision: a step that starts the push set-up
\* ends a poll that called neither enter_sd nor the telemetry fetch, and the
\* step that calls enter_sd starts no push set-up.
C15_CallOrder ==
    [][/\ (pollPc = "idle" /\ pollPc' # "idle")
            => pollPc' = IF apiDevice THEN "get_device_infos"
                                      ELSE "set_device_from_id"
       /\ Calls("set_device_from_id") => pollPc = "idle" /\ ~apiDevice
       /\ Calls("get_device_infos")
            => pollPc \in {"idle", "set_device_from_id"}
       /\ Calls("get_device_infos_parameters") => pollPc = "get_device_infos"
       /\ Calls("enter_sd")
            => /\ pollPc = "get_device_infos_parameters"
               /\ regCount' = regCount
       /\ pollPc' # "idle" => pollCalls'[pollPc'] = 1
       /\ regCount' # regCount
            => /\ pollPc = "get_device_infos_parameters"
               /\ pollPc' = "idle"
               /\ pollCalls'["get_device_infos"] = 1
               /\ pollCalls'["get_device_infos_parameters"] = 1
               /\ pollCalls'["enter_sd"] = 0
               /\ pollCalls'["_get_web_access_token"] = 0
               /\ pollCalls'["_http_request"] = 0]_vars

\* A second poll, the device already bound, called enter_sd after its two
\* fetches and returned, the first poll having started the push set-up.
C15_Witness ==
    /\ pollCount = 2
    /\ pollResult # NoResult
    /\ pollCalls["set_device_from_id"] = 0
    /\ pollCalls["get_device_infos"] = 1
    /\ pollCalls["get_device_infos_parameters"] = 1
    /\ pollCalls["enter_sd"] = 1
    /\ regCount = 1

\* C16: a listen task, and the shutdown handler of a push set-up, tear down
\* only that set-up: the handle they invoke or clear is the set-up's own, the
\* disconnect of an ending listen task closes no other task's connection, and
\* no handle is invoked twice.
C16_OwnRegistrationOnly ==
    [][\A h \in Handles :
          /\ (/\ tasks[h].pc \in {"connect", "disconnect"}
              /\ tasks'[h].pc = "done"
              /\ unsub # None
              /\ unsub' = None) => unsub = h
          /\ (/\ closePc[h] = "pending"
              /\ closePc'[h] = "done"
              /\ unsub # None) => unsub = h
          /\ (tasks[h].pc = "listen" /\ tasks'[h].pc = "disconnect")
                => \A g \in Handles \ {h} : tasks[g].pc # "listen"
          /\ unsubCalls'[h] <= 1]_vars

\* C17: when a push was applied after the poll's get_device_infos_parameters
\* returned and before the poll returns, the snapshot stored once the poll
\* has returned is not older than the pushed one.
C17_PollKeepsNewerPush ==
    [][(/\ pollPc = "enter_sd"
        /\ pollPc' = "idle"
        /\ pollResult'.out.kind = "ok"
        /\ lastPush.ver > pollDev.ver)
          => data'.ver >= lastPush.ver]_vars

\* C18 as stated: the step that calls enter_sd finds the client connected.
C18_EnterSdOnlyConnected ==
    [][Calls("enter_sd") => connected]_vars

\* C18, amended: the step that calls enter_sd finds the client connected or
\* an unsubscribe handle present.
C18_EnterSdWhenPushSetUp ==
    [][Calls("enter_sd") => connected \/ unsub # None]_vars

\* A poll is suspended in enter_sd while the listen task of the push set-up is
\* still connecting: handle present, client not connected.
C18_Witness ==
    /\ pollPc = "enter_sd"
    /\ ~connected
    /\ unsub # None
    /\ tasks[unsub].pc = "connect"


\* C19: the step that ends update-parameters leaves the success flag, the
\* unsubscribe handle, the bus listeners and the notifications alone; when the
\* client raised, the stored snapshot is unchanged, and when it returned a
\* Device, the stored snapshot is that Device.
C19_UpdateFrame ==
    [][(/\ svc.pc = "wait"
        /\ svc.op = "update_device_infos_parameters"
        /\ svc'.pc = "done")
          => /\ success' = success
             /\ unsub' = unsub
             /\ busListeners' = busListeners
             /\ notifyCount' = notifyCount
             /\ svc'.reply.kind = "error" => data' = data
             /\ svc'.reply.kind = "device" => data' = Device(svc'.reply.ver)]_vars

\* With a push set-up in place and the success flag false, one
\* update-parameters call replaced the snapshot and the next one raised.
C19_Witness ==
    /\ UpdateDone
    /\ svc.reply.kind = "error"
    /\ svc.after = svc.before
    /\ svcPrev # NoSvc
    /\ svcPrev.reply.kind = "device"
    /\ ~success
    /\ unsub # None
====
